---- MODULE Spec2Model ----
(***************************************************************************)
(* A model of package email (src/message.go, first file of the             *)
(* concatenation, lines 1-376): the header encoder (escapeWord,            *)
(* writeEscapeHeader, writeEscapeAddressHeader), the MIME tree and its     *)
(* serialization, and the Email assembler.  Strings are sequences of       *)
(* bytes (0..255), exactly as Go's len() and indexing see them.            *)
(***************************************************************************)
EXTENDS Integers, Sequences, FiniteSets, TLC

VARIABLES
    e,          \* the Email
    w,          \* the bytes the last WriteTo call wrote to its sink
    err,        \* what the last call returned
    op,         \* the last call: [name |-> ..., mode |-> ...]
    prev,       \* the WriteTo call right before the last call, if it was one
    added,      \* the (key, value) pairs given to AddHeader, in call order
    ncalls,     \* the number of calls made
    hKey, hValue, hOut, hpc,    \* the header encoder run on its own
    hAddrs                      \* the addresses given to the address header encoder

evars == <<e, w, err, op, prev, added, ncalls>>
hvars == <<hKey, hValue, hOut, hpc, hAddrs>>
vars == <<e, w, err, op, prev, added, ncalls, hKey, hValue, hOut, hpc, hAddrs>>

(***************************************************************************)
(* Program constants.                                                      *)
(***************************************************************************)
lineShouldLength == 78
lineEnd == <<13, 10>>
SP == 32
BANG == 33
TILDE == 126
EQ == 61
QM == 63
US == 95
DASH == 45
COLON == 58
COMMA == 44
DQUOTE == 34
BACKSLASH == 92
LT == 60
GT == 62
Mode7Bit == 0
Mode8Bit == 1
ModeBinary == 2
qPrefix == <<61, 63, 117, 116, 102, 45, 56, 63, 113, 63>>   \* "=?utf-8?q?"

(***************************************************************************)
(* Bounds of the model.                                                    *)
(***************************************************************************)
MaxWords == 2
LongLen == 71
MidLen == 38
MaxRunes == 9
MaxCalls == 3
MaxAddrs == 3
NameLen == 52

(***************************************************************************)
(* Byte-string helpers.                                                    *)
(***************************************************************************)
\* n copies of s
Rep(s, n) == [i \in 1..(n * Len(s)) |-> s[((i - 1) % Len(s)) + 1]]

\* the least index i >= from with s[i..] starting with t, or 0
IndexFrom(s, from, t) ==
    LET hits == { i \in from..(Len(s) - Len(t) + 1) :
                    \A k \in 1..Len(t) : s[i + k - 1] = t[k] }
    IN IF hits = {} THEN 0
       ELSE CHOOSE i \in hits : \A j \in hits : i <= j

\* s[i..] starts with t
StartsAt(s, i, t) ==
    /\ i + Len(t) - 1 <= Len(s)
    /\ \A k \in 1..Len(t) : s[i + k - 1] = t[k]

\* fmt "%02X": the two uppercase hex digits of a byte
HexDigit(d) == IF d < 10 THEN 48 + d ELSE 55 + d
Hex02X(c) == <<HexDigit(c \div 16), HexDigit(c % 16)>>

IsLower(c) == c >= 97 /\ c <= 122
IsUpper(c) == c >= 65 /\ c <= 90
IsDigit(c) == c >= 48 /\ c <= 57

\* net/textproto: the bytes of an RFC 7230 token
validHeaderFieldByte(c) ==
    \/ IsLower(c) \/ IsUpper(c) \/ IsDigit(c)
    \/ c \in {33, 35, 36, 37, 38, 39, 42, 43, 45, 46, 94, 95, 96, 124, 126}

\* textproto.CanonicalMIMEHeaderKey: a key with a byte outside the token
\* alphabet is returned unchanged; otherwise the loop keeps a flag upper, true
\* at the start and after a '-': a letter is upper-cased under the flag and
\* lower-cased without it.  No case change yields a '-', so the flag at i is
\* (i = 1 or s[i-1] = '-').
canonByte(s, i) ==
    LET upper == (i = 1) \/ s[i - 1] = DASH
        c == s[i]
    IN IF upper /\ IsLower(c) THEN c - 32
       ELSE IF ~upper /\ IsUpper(c) THEN c + 32
       ELSE c

CanonicalMIMEHeaderKey(s) ==
    IF \E i \in 1..Len(s) : ~validHeaderFieldByte(s[i]) THEN s
    ELSE [i \in 1..Len(s) |-> canonByte(s, i)]

\* strings.SplitAfter(value, " "): cut after every space; the pieces keep their
\* trailing space, and the piece after the last space may be empty.
RECURSIVE SplitAfterSpace(_)
SplitAfterSpace(s) ==
    LET i == IndexFrom(s, 1, <<SP>>)
    IN IF i = 0 THEN <<s>>
       ELSE <<SubSeq(s, 1, i)>> \o SplitAfterSpace(SubSeq(s, i + 1, Len(s)))

(***************************************************************************)
(* escapeWord (message.go 93-131).                                         *)
(***************************************************************************)
\* lines 95-100: ranging over the runes of word, a rune below ' ' or above '~'.
\* A byte >= 0x80 always decodes to a rune above '~' (a multi-byte rune or
\* U+FFFD), a byte < 0x80 is its own rune.
needsEscape(word) == \E i \in 1..Len(word) : word[i] < SP \/ word[i] > TILDE

\* lines 117-124: the switch on one byte
escapeByte(c) ==
    IF c = SP THEN <<US>>
    ELSE IF c >= BANG /\ c <= TILDE /\ c # EQ /\ c # QM /\ c # US THEN <<c>>
    ELSE <<EQ>> \o Hex02X(c)

\* lines 117-124 applied to word[i..j], in order
RECURSIVE escapeBytes(_, _, _)
escapeBytes(word, i, j) ==
    IF i > j THEN <<>>
    ELSE IF i = j THEN escapeByte(word[i])
    ELSE LET m == (i + j) \div 2
         IN escapeBytes(word, i, m) \o escapeBytes(word, m + 1, j)

\* the length of escapeBytes(word, i, j): one per byte, two more per '=XX'
escapedLen(word, i, j) ==
    (j - i + 1) + 2 * Cardinality({ k \in i..j : Len(escapeByte(word[k])) = 3 })

\* line 111: with the open line lineLen bytes long, is the encoded word closed
\* and a new line begun before the next byte is written
escapeBreak(lineLen) == lineLen + 5 > lineShouldLength

\* The loop of lines 109-125, one encoded word (one output line) per step: the
\* line opened with `open` takes word[i] and then every following byte before
\* which the test of line 111 is false; at the first byte j before which it is
\* true the line is closed with "?=" CRLF and the next opens with " =?utf-8?q?".
RECURSIVE escapeLines(_, _, _)
escapeLines(word, i, open) ==
    LET breaks == { j \in (i + 1)..Len(word) :
                      escapeBreak(Len(open) + escapedLen(word, i, j - 1)) }
        j == IF breaks = {} THEN Len(word) + 1
             ELSE CHOOSE x \in breaks : \A y \in breaks : x <= y
        line == open \o escapeBytes(word, i, j - 1) \o <<QM, EQ>>
    IN IF j > Len(word) THEN line
       ELSE line \o lineEnd \o escapeLines(word, j, <<SP>> \o qPrefix)

\* At i = 1 the test of line 111 is false (10 + 5 <= 78), so the first byte
\* always lands on the first line.
escapeWord(word) ==
    IF ~needsEscape(word) THEN word
    ELSE escapeLines(word, 1, qPrefix)

(***************************************************************************)
(* writeEscapeHeader (message.go 133-147).                                 *)
(***************************************************************************)
\* a fold as soon as the line is full, not only when it overflows
headerFold_atThreshold(line, esc) == Len(line) + Len(esc) >= lineShouldLength

\* line 137: does the escaped word no longer fit on the current line
headerFold(line, esc) == Len(line) + Len(esc) > lineShouldLength

RECURSIVE headerLoop(_, _, _, _)
headerLoop(b, line, words, i) ==
    IF i > Len(words) THEN b \o line \o lineEnd
    ELSE LET esc == escapeWord(words[i]) IN
         IF headerFold(line, esc)
         THEN headerLoop(b \o line \o lineEnd, <<SP>> \o esc, words, i + 1)
         ELSE headerLoop(b, line \o esc, words, i + 1)

headerPrefix(key) == CanonicalMIMEHeaderKey(key) \o <<COLON, SP>>

\* the buffer b after the call
writeEscapeHeader(b, key, value) ==
    headerLoop(b, headerPrefix(key), SplitAfterSpace(value), 1)

(***************************************************************************)
(* writeEscapeAddressHeader (message.go 149-169).                          *)
(***************************************************************************)
Addr(name, address) == [Name |-> name, Address |-> address]
ZeroAddress == Addr(<<>>, <<>>)

isVchar(c) == c >= BANG /\ c <= TILDE
isWSP(c) == c = SP \/ c = 9
isQtext(c) == c # BACKSLASH /\ c # DQUOTE /\ isVchar(c)

\* net/mail quoteString, without the enclosing quotes, on name[i..j]
RECURSIVE quoteBytes(_, _, _)
quoteBytes(name, i, j) ==
    IF i > j THEN <<>>
    ELSE IF i = j THEN
        IF isQtext(name[i]) \/ isWSP(name[i]) THEN <<name[i]>>
        ELSE <<BACKSLASH, name[i]>>
    ELSE LET m == (i + j) \div 2
         IN quoteBytes(name, i, m) \o quoteBytes(name, m + 1, j)

\* net/mail Address.String(), called at line 157, for an address whose local
\* part is a dot-atom: "<addr>" without a name, the quoted name and "<addr>" for
\* a name of printable ASCII, else the name as one "q" encoded word.
AddressString(a) ==
    LET s == <<LT>> \o a.Address \o <<GT>>
        allPrintable == \A i \in 1..Len(a.Name) : isVchar(a.Name[i]) \/ isWSP(a.Name[i])
    IN IF a.Name = <<>> THEN s
       ELSE IF allPrintable
       THEN <<DQUOTE>> \o quoteBytes(a.Name, 1, Len(a.Name)) \o <<DQUOTE, SP>> \o s
       ELSE qPrefix \o escapeBytes(a.Name, 1, Len(a.Name)) \o <<QM, EQ, SP>> \o s

\* line 158: does the address no longer fit on the current line
addressFold(line, s) == Len(line) + Len(s) >= lineShouldLength

\* the separating comma written after the fold, at the head of the new line
RECURSIVE addressLoop_commaAfterFold(_, _, _, _)
addressLoop_commaAfterFold(b, line, addresses, i) ==
    IF i > Len(addresses) THEN b \o line \o lineEnd
    ELSE LET comma == IF i # 1 THEN <<COMMA>> ELSE <<>>
             s == AddressString(addresses[i])
         IN IF addressFold(line \o comma, s)
            THEN addressLoop_commaAfterFold(b \o line \o lineEnd,
                                            comma \o <<SP>> \o s, addresses, i + 1)
            ELSE addressLoop_commaAfterFold(b, line \o comma \o <<SP>> \o s,
                                            addresses, i + 1)

\* lines 152-168: the loop over the addresses, then the last line written
RECURSIVE addressLoop(_, _, _, _)
addressLoop(b, line, addresses, i) ==
    IF i > Len(addresses) THEN b \o line \o lineEnd
    ELSE LET line1 == IF i # 1 THEN Append(line, COMMA) ELSE line
             s == AddressString(addresses[i])
         IN IF addressFold(line1, s)
            THEN addressLoop(b \o line1 \o lineEnd, <<SP>> \o s, addresses, i + 1)
            ELSE addressLoop(b, line1 \o <<SP>> \o s, addresses, i + 1)

\* the buffer b after the call
writeEscapeAddressHeader(b, key, addresses) ==
    addressLoop(b, CanonicalMIMEHeaderKey(key) \o <<COLON>>, addresses, 1)

\* lines 171-176
writeBoundary(sink, boundary) == sink \o lineEnd \o boundary

(***************************************************************************)
(* The MIME tree (message.go 62-64, 302-376).  A MIME value is nil, a      *)
(* *MIMEPart, a *MIMEMultipart, or a value of another type implementing    *)
(* the interface.  Content is what is left to read from the io.Reader.     *)
(***************************************************************************)
sContentType == <<67, 111, 110, 116, 101, 110, 116, 45, 84, 121, 112, 101>>
sTextPlain == <<116, 101, 120, 116, 47, 112, 108, 97, 105, 110>>
sTextHtml == <<116, 101, 120, 116, 47, 104, 116, 109, 108>>
sMultipartAlternative ==
    <<109, 117, 108, 116, 105, 112, 97, 114, 116, 47, 97, 108, 116, 101, 114,
      110, 97, 116, 105, 118, 101>>

NilMIME ==
    [kind |-> "nil", Type |-> <<>>, Disposition |-> "", Charset |-> "",
     Content |-> <<>>, Boundary |-> <<>>, Parts |-> <<>>]

MIMEPart(type, content) ==
    [kind |-> "MIMEPart", Type |-> type, Disposition |-> "inline",
     Charset |-> "utf-8", Content |-> content, Boundary |-> <<>>, Parts |-> <<>>]

MIMEMultipart(type, parts) ==
    [kind |-> "MIMEMultipart", Type |-> type, Disposition |-> "", Charset |-> "",
     Content |-> <<>>, Boundary |-> <<>>, Parts |-> parts]

\* a *MIMEPart the caller builds to carry a file: any Type, Disposition
\* "attachment"
AttachmentPart(type, content) ==
    [kind |-> "MIMEPart", Type |-> type, Disposition |-> "attachment",
     Charset |-> "", Content |-> content, Boundary |-> <<>>, Parts |-> <<>>]

\* a part of a type of the caller's own
OtherMIME(content) ==
    [kind |-> "other", Type |-> <<>>, Disposition |-> "", Charset |-> "",
     Content |-> content, Boundary |-> <<>>, Parts |-> <<>>]

generateBoundary == <<98, 111, 117, 110, 100, 97, 114, 121>>                 \* "boundary"
genenerateMessageId == <<109, 101, 115, 115, 97, 103, 101, 32, 105, 100>>    \* "message id"

\* MIMEPart.WriteTo, lines 314-327: the header block, then the reader copied to
\* the sink as it is, which leaves the reader at its end.  m is not read.
MIMEPart_WriteTo(p, m) ==
    [p |-> [p EXCEPT !.Content = <<>>],
     out |-> writeEscapeHeader(<<>>, sContentType, p.Type) \o lineEnd \o p.Content,
     err |-> "nil"]

\* a part of another type: it writes its content
OtherMIME_WriteTo(p, m) == [p |-> p, out |-> p.Content, err |-> "nil"]

\* lines 352-366: the boundary is set if empty, then the header block and a
\* first boundary are written
multipartHead(p, boundary) ==
    writeBoundary(writeEscapeHeader(<<>>, sContentType, p.Type) \o lineEnd, boundary)

RECURSIVE MIME_WriteTo(_, _)
RECURSIVE partsLoop(_, _, _, _, _)

\* lines 368-374: each part written, then a boundary
partsLoop(parts, i, m, boundary, sink) ==
    IF i > Len(parts) THEN [parts |-> parts, out |-> sink, err |-> "nil"]
    ELSE LET r == MIME_WriteTo(parts[i], m)
             parts1 == [parts EXCEPT ![i] = r.p]
         IN IF r.err # "nil"
            THEN [parts |-> parts1, out |-> sink \o r.out, err |-> r.err]
            ELSE partsLoop(parts1, i + 1, m, boundary,
                           writeBoundary(sink \o r.out, boundary))

\* MIMEMultipart.WriteTo, lines 348-376
MIMEMultipart_WriteTo(p, m) ==
    LET boundary == IF p.Boundary = <<>> THEN generateBoundary ELSE p.Boundary
        r == partsLoop(p.Parts, 1, m, boundary, multipartHead(p, boundary))
    IN [p |-> [p EXCEPT !.Boundary = boundary, !.Parts = r.parts],
        out |-> r.out, err |-> r.err]

\* the dynamic dispatch of MIME.WriteTo
MIME_WriteTo(p, m) ==
    IF p.kind = "MIMEPart" THEN MIMEPart_WriteTo(p, m)
    ELSE IF p.kind = "MIMEMultipart" THEN MIMEMultipart_WriteTo(p, m)
    ELSE OtherMIME_WriteTo(p, m)

(***************************************************************************)
(* The Email (message.go 44-60) and its methods.                           *)
(***************************************************************************)
sDate == <<68, 97, 116, 101>>
sFrom == <<70, 114, 111, 109>>
sTo == <<84, 111>>
sCc == <<67, 99>>
sBcc == <<66, 99, 99>>
sReplyTo == <<82, 101, 112, 108, 121, 45, 84, 111>>
sSubject == <<83, 117, 98, 106, 101, 99, 116>>
sMessageId == <<77, 101, 115, 115, 97, 103, 101, 45, 73, 100>>
sMIMEVersion == <<77, 73, 77, 69, 45, 86, 101, 114, 115, 105, 111, 110>>
s10 == <<49, 46, 48>>

\* time.Time values: the zero time, a time the caller sets, the time of the call
TimeSet == "Mon, 02 Jan 2006 15:04:05 -0700"
TimeNow == "Sat, 31 Oct 2026 06:04:00 +0000"

\* Date.Format(time.RFC1123Z), line 202
FormatRFC1123Z(t) ==
    IF t = TimeSet
    THEN <<77, 111, 110, 44, 32, 48, 50, 32, 74, 97, 110, 32, 50, 48, 48, 54, 32,
           49, 53, 58, 48, 52, 58, 48, 53, 32, 45, 48, 55, 48, 48>>
    ELSE IF t = TimeNow
    THEN <<83, 97, 116, 44, 32, 51, 49, 32, 79, 99, 116, 32, 50, 48, 50, 54, 32,
           48, 54, 58, 48, 52, 58, 48, 48, 32, 43, 48, 48, 48, 48>>
    ELSE <<77, 111, 110, 44, 32, 48, 49, 32, 74, 97, 110, 32, 48, 48, 48, 49, 32,
           48, 48, 58, 48, 48, 58, 48, 48, 32, 43, 48, 48, 48, 48>>

\* textproto.MIMEHeader: nil, or a map from canonical keys to lists of values
NilHeaders == [isNil |-> TRUE, m |-> <<>>]
makeHeaders(h) == IF h.isNil THEN [isNil |-> FALSE, m |-> <<>>] ELSE h

\* textproto.MIMEHeader.Add on a map that is not nil
HeadersAdd(h, key, value) ==
    LET k == CanonicalMIMEHeaderKey(key)
    IN [h EXCEPT !.m = IF k \in DOMAIN @ THEN [@ EXCEPT ![k] = Append(@, value)]
                       ELSE @ @@ (k :> <<value>>)]

\* lines 222-226: the map ranged over in the order `order` of its keys
RECURSIVE valuesLoop(_, _, _, _)
valuesLoop(b, key, values, i) ==
    IF i > Len(values) THEN b
    ELSE valuesLoop(writeEscapeHeader(b, key, values[i]), key, values, i + 1)

RECURSIVE headersLoop(_, _, _, _)
headersLoop(b, h, order, i) ==
    IF i > Len(order) THEN b
    ELSE headersLoop(valuesLoop(b, order[i], h.m[order[i]], 1), h, order, i + 1)

\* the orders a range over the map may take: Go leaves the order unspecified
KeyOrders(h) ==
    LET keys == DOMAIN h.m
        n == Cardinality(keys)
    IN { f \in [1..n -> keys] : \A i, j \in 1..n : f[i] = f[j] => i = j }

\* lines 186-191: the defaults of Date and MessageId
withDefaults(em) ==
    [em EXCEPT !.Date = IF @ = "zero" THEN TimeNow ELSE @,
               !.MessageId = IF @ = <<>> THEN genenerateMessageId ELSE @]

\* the body tested before the sender
preconditionError_bodyFirst(em) ==
    IF em.Message.kind = "nil" THEN "ErrNoBody"
    ELSE IF em.From.Address = <<>> THEN "ErrFromRequired"
    ELSE "nil"

\* lines 192-197: the preconditions, in the order the code tests them
preconditionError(em) ==
    IF em.From.Address = <<>> THEN "ErrFromRequired"
    ELSE IF em.Message.kind = "nil" THEN "ErrNoBody"
    ELSE "nil"

\* lines 202-218: the envelope headers
envelopeHeaders(em) ==
    LET b1 == writeEscapeHeader(<<>>, sDate, FormatRFC1123Z(em.Date))
        b2 == writeEscapeAddressHeader(b1, sFrom, <<em.From>>)
        b3 == IF Len(em.To) > 0 THEN writeEscapeAddressHeader(b2, sTo, em.To) ELSE b2
        b4 == IF Len(em.Cc) > 0 THEN writeEscapeAddressHeader(b3, sCc, em.Cc) ELSE b3
        b5 == IF Len(em.Bcc) > 0 THEN writeEscapeAddressHeader(b4, sBcc, em.Bcc) ELSE b4
        b6 == IF Len(em.ReplyTo) > 0
              THEN writeEscapeAddressHeader(b5, sReplyTo, em.ReplyTo) ELSE b5
        b7 == writeEscapeHeader(b6, sSubject, em.Subject)
    IN writeEscapeHeader(b7, sMessageId, em.MessageId)

\* Email.WriteTo, lines 182-232, with the map ranged over in `order`: the Email
\* after the call, the bytes written to the sink, and the error returned
Email_WriteTo(em, m, order) ==
    LET e1 == withDefaults(em)
        perr == preconditionError(e1)
        e2 == [e1 EXCEPT !.Headers = HeadersAdd(makeHeaders(@), sMIMEVersion, s10)]
        buf == headersLoop(envelopeHeaders(e2), e2.Headers, order, 1)
        r == MIME_WriteTo(e2.Message, m)
    IN IF perr # "nil" THEN [e |-> e1, out |-> <<>>, err |-> perr]
       ELSE [e |-> [e2 EXCEPT !.Message = r.p], out |-> buf \o r.out, err |-> r.err]

\* the keys of the map as WriteTo ranges over it: with MIME-Version added
WriteToHeaders(em) == HeadersAdd(makeHeaders(em.Headers), sMIMEVersion, s10)

\* AddHeader, lines 236-242
AddHeader(em, key, value) ==
    [em EXCEPT !.Headers = HeadersAdd(makeHeaders(@), key, value)]

\* AddTo, AddCc, AddBcc, lines 72-84
AddTo(em, a) == [em EXCEPT !.To = @ \o a]
AddCc(em, a) == [em EXCEPT !.Cc = @ \o a]
AddBcc(em, a) == [em EXCEPT !.Bcc = @ \o a]

\* AddTextBody, lines 246-269: the Email after the call and the error returned
AddTextBody(em, r) ==
    LET textPart == MIMEPart(sTextPlain, r)
        p == em.Message
    IN IF p.kind = "nil" THEN [e |-> [em EXCEPT !.Message = textPart], err |-> "nil"]
       ELSE IF p.kind = "MIMEMultipart"
       THEN [e |-> [em EXCEPT !.Message.Parts = Append(@, textPart)], err |-> "nil"]
       ELSE IF p.kind = "MIMEPart"
       THEN [e |-> [em EXCEPT !.Message =
                        MIMEMultipart(sMultipartAlternative, <<p, textPart>>)],
             err |-> "nil"]
       ELSE [e |-> em, err |-> "ErrInvalidMimeTree"]

\* AddHTMLBody, lines 277-300; charset is not read
AddHTMLBody(em, r, charset) ==
    LET htmlPart == MIMEPart(sTextHtml, r)
        p == em.Message
    IN IF p.kind = "nil" THEN [e |-> [em EXCEPT !.Message = htmlPart], err |-> "nil"]
       ELSE IF p.kind = "MIMEMultipart"
       THEN [e |-> [em EXCEPT !.Message.Parts = Append(@, htmlPart)], err |-> "nil"]
       ELSE IF p.kind = "MIMEPart"
       THEN [e |-> [em EXCEPT !.Message =
                        MIMEMultipart(sMultipartAlternative, <<htmlPart, p>>)],
             err |-> "nil"]
       ELSE [e |-> em, err |-> "ErrInvalidMimeTree"]

(***************************************************************************)
(* The Email as a state machine: the caller constructs it, then calls its  *)
(* methods in any order, at most MaxCalls times.                           *)
(***************************************************************************)
Sender == Addr(<<84, 101, 115, 116>>,
               <<116, 101, 115, 116, 64, 101, 120, 97, 109, 112, 108, 101, 46, 111, 114, 103>>)
Rcpt == Addr(<<84, 111>>,
             <<116, 111, 64, 101, 120, 97, 109, 112, 108, 101, 46, 111, 114, 103>>)
RcptCc == Addr(<<67, 67, 49>>,
               <<99, 99, 64, 101, 120, 97, 109, 112, 108, 101, 46, 111, 114, 103>>)
RcptBcc == Addr(<<>>,
                <<98, 99, 99, 64, 101, 120, 97, 109, 112, 108, 101, 46, 111, 114, 103>>)
SomeSubject == <<65, 32, 116, 101, 115, 116, 32, 115, 117, 98, 106, 101, 99, 116>>
SomeMessageId == <<60, 116, 101, 115, 116, 64, 97, 98, 99, 46, 111, 114, 103, 62>>
sFoo == <<70, 111, 111>>
sBar == <<66, 97, 114>>
sHello == <<72, 101, 108, 108, 111>>
sNonAscii == <<230, 181, 139>>
sHtml == <<60, 98, 62>>
sApplicationPdf == <<97, 112, 112, 108, 105, 99, 97, 116, 105, 111, 110, 47, 112, 100, 102>>
sPdf == <<37, 80, 68, 70>>

Modes == {Mode7Bit, Mode8Bit, ModeBinary}
TextBodies == {sHello, sNonAscii}
HtmlBodies == {sHtml}
ExtraHeaders == { <<sFoo, sBar>>, <<sBar, sFoo>> }

NoCall == [name |-> "none", mode |-> Mode7Bit]
NoPrev == [name |-> "none", mode |-> Mode7Bit, w |-> <<>>, err |-> "nil"]

EmailOf(from, date, messageId, message) ==
    [From |-> from, To |-> <<>>, Cc |-> <<>>, Bcc |-> <<>>, ReplyTo |-> <<>>,
     Date |-> date, Subject |-> SomeSubject, MessageId |-> messageId,
     Headers |-> NilHeaders, Message |-> message]

Init ==
    /\ \E from \in {ZeroAddress, Sender}, date \in {"zero", TimeSet},
          messageId \in {<<>>, SomeMessageId},
          message \in {NilMIME, OtherMIME(sHello),
                       AttachmentPart(sApplicationPdf, sPdf)} :
            e = EmailOf(from, date, messageId, message)
    /\ w = <<>>
    /\ err = "nil"
    /\ op = NoCall
    /\ prev = NoPrev
    /\ added = <<>>
    /\ ncalls = 0
    /\ hKey = <<>> /\ hValue = <<>> /\ hOut = <<>> /\ hpc = "off"
    /\ hAddrs = <<>>

\* what every call that is not WriteTo leaves behind
Called(name) ==
    /\ ncalls < MaxCalls
    /\ ncalls' = ncalls + 1
    /\ op' = [name |-> name, mode |-> Mode7Bit]
    /\ prev' = NoPrev
    /\ w' = <<>>
    /\ UNCHANGED hvars

DoAddTo ==
    /\ Called("AddTo")
    /\ e' = AddTo(e, <<Rcpt>>)
    /\ err' = "nil"
    /\ UNCHANGED added

DoAddCc ==
    /\ Called("AddCc")
    /\ e' = AddCc(e, <<RcptCc>>)
    /\ err' = "nil"
    /\ UNCHANGED added

DoAddBcc ==
    /\ Called("AddBcc")
    /\ e' = AddBcc(e, <<RcptBcc>>)
    /\ err' = "nil"
    /\ UNCHANGED added

\* the caller sets the field, as TestMessage does
DoSetReplyTo ==
    /\ Called("SetReplyTo")
    /\ e' = [e EXCEPT !.ReplyTo = <<Rcpt>>]
    /\ err' = "nil"
    /\ UNCHANGED added

DoAddHeader ==
    /\ Called("AddHeader")
    /\ \E kv \in ExtraHeaders :
        /\ e' = AddHeader(e, kv[1], kv[2])
        /\ added' = Append(added, kv)
    /\ err' = "nil"

DoAddTextBody ==
    /\ Called("AddTextBody")
    /\ \E r \in TextBodies :
        \E res \in {AddTextBody(e, r)} : e' = res.e /\ err' = res.err
    /\ UNCHANGED added

DoAddHTMLBody ==
    /\ Called("AddHTMLBody")
    /\ \E r \in HtmlBodies :
        \E res \in {AddHTMLBody(e, r, "utf-8")} : e' = res.e /\ err' = res.err
    /\ UNCHANGED added

DoWriteTo ==
    /\ ncalls < MaxCalls
    /\ ncalls' = ncalls + 1
    /\ \E m \in Modes :
        /\ op' = [name |-> "WriteTo", mode |-> m]
        /\ \E order \in KeyOrders(WriteToHeaders(e)) :
            \E res \in {Email_WriteTo(e, m, order)} :
                e' = res.e /\ w' = res.out /\ err' = res.err
    /\ prev' = IF op.name = "WriteTo"
               THEN [name |-> "WriteTo", mode |-> op.mode, w |-> w, err |-> err]
               ELSE NoPrev
    /\ UNCHANGED <<added, hvars>>

Next ==
    \/ DoAddTo
    \/ DoAddCc
    \/ DoAddBcc
    \/ DoSetReplyTo
    \/ DoAddHeader
    \/ DoAddTextBody
    \/ DoAddHTMLBody
    \/ DoWriteTo

Spec == Init /\ [][Next]_vars

(***************************************************************************)
(* The header encoder as a function of its inputs: Init draws a header     *)
(* name and a value, the one action applies writeEscapeHeader to an empty  *)
(* buffer.                                                                 *)
(***************************************************************************)
RECURSIVE JoinSp(_)
JoinSp(ws) ==
    IF Len(ws) = 0 THEN <<>>
    ELSE IF Len(ws) = 1 THEN ws[1]
    ELSE ws[1] \o <<SP>> \o JoinSp(Tail(ws))

HeaderKeys ==
    { <<115, 117, 98, 106, 101, 67, 116>>,                   \* "subjeCt"
      <<109, 101, 115, 115, 97, 103, 101, 45, 105, 100>>,    \* "message-id"
      <<116, 111>> }                                         \* "to"

HeaderWords ==
    { <<97, 98, 99, 100, 101>>,                              \* "abcde"
      <<230, 181, 139, 232, 175, 149>>,                      \* two CJK runes
      <<61, 95, 63, 230, 181, 139>>,                         \* "=_?" and a CJK rune
      <<120, 95, 121>>,                                      \* "x_y"
      <<61, 63, 117, 116, 102, 45, 56, 63, 113, 63, 97, 63, 61>>,  \* "=?utf-8?q?a?="
      Rep(<<97>>, MidLen),
      Rep(<<230, 181, 139>>, MaxRunes) }
    \cup { Rep(<<97>>, n) : n \in (LongLen - 2)..LongLen }

WordSeqs == UNION { [1..n -> HeaderWords] : n \in 0..MaxWords }

HeaderValues == { JoinSp(ws) : ws \in WordSeqs }

HInit ==
    /\ hKey \in HeaderKeys
    /\ hValue \in HeaderValues
    /\ hOut = <<>>
    /\ hpc = "call"
    /\ hAddrs = <<>>
    /\ e = EmailOf(ZeroAddress, "zero", <<>>, NilMIME)
    /\ w = <<>> /\ err = "nil" /\ op = NoCall /\ prev = NoPrev
    /\ added = <<>> /\ ncalls = 0

HWriteEscapeHeader ==
    /\ hpc = "call"
    /\ hOut' = writeEscapeHeader(<<>>, hKey, hValue)
    /\ hpc' = "done"
    /\ UNCHANGED <<hKey, hValue, hAddrs, evars>>

HNext == HWriteEscapeHeader

SpecHeader == HInit /\ [][HNext]_vars

(***************************************************************************)
(* The address header encoder as a function of its inputs: Init draws a    *)
(* header name and a list of addresses, the one action applies             *)
(* writeEscapeAddressHeader to an empty buffer.                            *)
(***************************************************************************)
sExampleCom == <<116, 101, 115, 116, 64, 101, 120, 97, 109, 112, 108, 101, 46, 99, 111, 109>>

AddressKeys ==
    { <<116, 111>>,                                          \* "to"
      <<66, 67, 67>>,                                        \* "BCC"
      <<102, 114, 111, 109>>,                                \* "from"
      <<114, 101, 112, 108, 121, 45, 116, 111>> }            \* "reply-to"

Addresses ==
    { Addr(<<230, 181, 139, 232, 175, 149>>, sExampleCom),   \* a name of two CJK runes
      Addr(<<86, 101, 114, 121, 32, 76, 111, 110, 103, 32, 78, 97, 109, 101>>,
           sExampleCom),                                     \* "Very Long Name"
      Addr(<<>>, sExampleCom),                               \* no name
      Addr(<<97, 34, 98>>, sExampleCom),                     \* a name with a quote
      Addr(Rep(<<110>>, NameLen), sExampleCom) }             \* a long name

AddressLists == UNION { [1..n -> Addresses] : n \in 1..MaxAddrs }

AInit ==
    /\ hKey \in AddressKeys
    /\ hAddrs \in AddressLists
    /\ hValue = <<>>
    /\ hOut = <<>>
    /\ hpc = "call"
    /\ e = EmailOf(ZeroAddress, "zero", <<>>, NilMIME)
    /\ w = <<>> /\ err = "nil" /\ op = NoCall /\ prev = NoPrev
    /\ added = <<>> /\ ncalls = 0

AWriteEscapeAddressHeader ==
    /\ hpc = "call"
    /\ hOut' = writeEscapeAddressHeader(<<>>, hKey, hAddrs)
    /\ hpc' = "done"
    /\ UNCHANGED <<hKey, hValue, hAddrs, evars>>

ANext == AWriteEscapeAddressHeader

SpecAddress == AInit /\ [][ANext]_vars

(***************************************************************************)
(* Reading a header line back: what a reader of the output does.           *)
(***************************************************************************)
\* the output without its "Name: " prefix and its final CRLF
HeaderBody(out, key) == SubSeq(out, Len(headerPrefix(key)) + 1, Len(out) - 2)

\* every fold (CRLF and the one space that follows it) removed
RECURSIVE Unfold(_)
Unfold(s) ==
    LET i == IndexFrom(s, 1, lineEnd \o <<SP>>)
    IN IF i = 0 THEN s
       ELSE SubSeq(s, 1, i - 1) \o Unfold(SubSeq(s, i + 3, Len(s)))

IsHexDigit(c) == IsDigit(c) \/ (c >= 65 /\ c <= 70)
HexVal(c) == IF IsDigit(c) THEN c - 48 ELSE c - 55

\* body[i..i+2] is '=XX'
IsEsc(body, i) ==
    /\ i >= 1 /\ i + 2 <= Len(body)
    /\ body[i] = EQ /\ IsHexDigit(body[i + 1]) /\ IsHexDigit(body[i + 2])

\* the decoding of body[i..j]: '=XX' is the byte XX, '_' a space
RECURSIVE DecodeQ(_, _, _)
DecodeQ(body, i, j) ==
    IF i > j THEN <<>>
    ELSE IF i = j THEN
        IF IsEsc(body, i - 1) \/ IsEsc(body, i - 2) THEN <<>>
        ELSE IF IsEsc(body, i) THEN <<16 * HexVal(body[i + 1]) + HexVal(body[i + 2])>>
        ELSE IF body[i] = US THEN <<SP>>
        ELSE <<body[i]>>
    ELSE LET m == (i + j) \div 2
         IN DecodeQ(body, i, m) \o DecodeQ(body, m + 1, j)

\* every encoded word "=?utf-8?q?" body "?=" replaced by its decoding
RECURSIVE DecodeWords(_)
DecodeWords(s) ==
    LET i == IndexFrom(s, 1, qPrefix)
        j == IF i = 0 THEN 0 ELSE IndexFrom(s, i + Len(qPrefix), <<QM, EQ>>)
    IN IF i = 0 \/ j = 0 THEN s
       ELSE SubSeq(s, 1, i - 1)
            \o DecodeQ(SubSeq(s, i + Len(qPrefix), j - 1), 1, j - i - Len(qPrefix))
            \o DecodeWords(SubSeq(s, j + 2, Len(s)))

ReadBack(out, key) == DecodeWords(Unfold(HeaderBody(out, key)))

IsPrintableAscii(s) == \A i \in 1..Len(s) : s[i] >= SP /\ s[i] <= TILDE

\* the lengths of the lines of out, each without its CRLF
LineLengths(out) ==
    LET ends == { i \in 1..(Len(out) - 1) : out[i] = 13 /\ out[i + 1] = 10 }
    IN { x - (IF \E p \in ends : p < x
              THEN (CHOOSE p \in ends : p < x /\ \A q \in ends : q < x => q <= p) + 2
              ELSE 1)
         : x \in ends }

(***************************************************************************)
(* Properties of Email.WriteTo and of the body insertions, under Spec.     *)
(***************************************************************************)
IsCall(name) == op.name = name
Calls(name) == ncalls' = ncalls + 1 /\ op'.name = name

\* C1: two WriteTo calls in a row with the same Mode, on an Email whose Date
\* and MessageId the caller set and that has a sender and a root part, write
\* the same bytes.
C1_WriteToTwiceSameBytes ==
    ( /\ IsCall("WriteTo") /\ prev.name = "WriteTo" /\ prev.mode = op.mode
      /\ err = "nil" /\ prev.err = "nil"
      /\ e.Date = TimeSet /\ e.MessageId = SomeMessageId )
    => w = prev.w

\* C2: WriteTo on an Email without a sender address returns ErrFromRequired,
\* with or without a body; with a sender and no root part it returns ErrNoBody;
\* either way nothing is written to the sink.  (WriteTo changes neither the
\* sender nor whether there is a root part, so they are read after the call.)
C2_PreconditionErrors ==
    IsCall("WriteTo") =>
        /\ e.From.Address = <<>> => (err = "ErrFromRequired" /\ w = <<>>)
        /\ (e.From.Address # <<>> /\ e.Message.kind = "nil")
              => (err = "ErrNoBody" /\ w = <<>>)

\* a WriteTo call refused for the missing sender, of an Email that has a body
C2_Witness ==
    /\ IsCall("WriteTo") /\ err = "ErrFromRequired" /\ w = <<>>
    /\ e.From.Address = <<>> /\ e.Message.kind # "nil"

IsLeaf(p, type) == p.kind = "MIMEPart" /\ p.Type = type

PartTypes(p) == [i \in 1..Len(p.Parts) |-> p.Parts[i].Type]

\* C3: the second of a text and an HTML insertion into an Email that had no
\* root part, in either order, leaves a multipart/alternative root whose
\* children are the text part, then the HTML part.
C3_TextBeforeHtml ==
    [][ ( \/ Calls("AddHTMLBody") /\ IsLeaf(e.Message, sTextPlain)
          \/ Calls("AddTextBody") /\ IsLeaf(e.Message, sTextHtml) )
        => /\ e'.Message.kind = "MIMEMultipart"
           /\ e'.Message.Type = sMultipartAlternative
           /\ PartTypes(e'.Message) = <<sTextPlain, sTextHtml>> ]_vars

\* C4: into a multipart root AddTextBody puts the text part first and
\* AddHTMLBody puts the HTML part last; the parts already there keep their
\* order and the root is otherwise the same container.
C4_MultipartInsertPosition ==
    [][ e.Message.kind = "MIMEMultipart" =>
          LET old == e.Message.Parts
              new == e'.Message.Parts
              sameRoot == [e'.Message EXCEPT !.Parts = old] = e.Message
          IN /\ Calls("AddTextBody") =>
                  /\ sameRoot /\ Len(new) = Len(old) + 1
                  /\ IsLeaf(new[1], sTextPlain)
                  /\ SubSeq(new, 2, Len(new)) = old
             /\ Calls("AddHTMLBody") =>
                  /\ sameRoot /\ Len(new) = Len(old) + 1
                  /\ IsLeaf(new[Len(new)], sTextHtml)
                  /\ SubSeq(new, 1, Len(old)) = old ]_vars

\* a single text or HTML leaf: a *MIMEPart of Type text/plain or text/html
IsTextLeaf(p) == IsLeaf(p, sTextPlain) \/ IsLeaf(p, sTextHtml)

\* C5: AddTextBody and AddHTMLBody on a root that is neither absent, nor a
\* single text or HTML leaf, nor a multipart container (an attachment root, or a
\* root of another type) return ErrInvalidMimeTree and leave every field of the
\* Email as it was.
C5_AmbiguousTreeUntouched ==
    [][ ( /\ Calls("AddTextBody") \/ Calls("AddHTMLBody")
          /\ e.Message.kind \notin {"nil", "MIMEMultipart"}
          /\ ~IsTextLeaf(e.Message) )
        => (err' = "ErrInvalidMimeTree" /\ e' = e) ]_vars

\* the extra headers as the claim orders them: one line per AddHeader call, in
\* call order
RECURSIVE addedLines(_, _, _)
addedLines(b, kvs, i) ==
    IF i > Len(kvs) THEN b
    ELSE addedLines(writeEscapeHeader(b, kvs[i][1], kvs[i][2]), kvs, i + 1)

\* the header lines C6 describes, for the Email as WriteTo leaves it
ClaimedHeaders(em, kvs) ==
    addedLines(writeEscapeHeader(envelopeHeaders(em), sMIMEVersion, s10), kvs, 1)

\* C6: a successful WriteTo writes Date, From, To, Cc, Bcc, Reply-To, Subject,
\* Message-Id (the four address lists only if not empty), then one MIME-Version
\* line, then the added headers in call order, one line per added value, and
\* then the root part.
C6_EnvelopeHeaderOrder ==
    (IsCall("WriteTo") /\ err = "nil") =>
        \E expected \in {ClaimedHeaders(e, added)} :
            /\ StartsAt(w, 1, expected)
            /\ \/ e.Message.kind = "other"
               \/ StartsAt(w, Len(expected) + 1, headerPrefix(sContentType))

sDashes == <<45, 45>>

\* what C7 describes for the children parts[i..] of a container with token t
RECURSIVE claimedParts(_, _, _, _)
claimedParts(parts, i, t, m) ==
    IF i > Len(parts) THEN lineEnd \o sDashes \o t \o sDashes \o lineEnd
    ELSE lineEnd \o sDashes \o t \o MIME_WriteTo(parts[i], m).out
         \o claimedParts(parts, i + 1, t, m)

ClaimedMultipart(p, t, m) ==
    writeEscapeHeader(<<>>, sContentType, p.Type) \o lineEnd
    \o claimedParts(p.Parts, 1, t, m)

EndsWith(s, t) ==
    Len(t) <= Len(s) /\ SubSeq(s, Len(s) - Len(t) + 1, Len(s)) = t

\* C7: a multipart root with token T and at least one child is written as its
\* header block, then per child CRLF "--" T and the child's serialization, then
\* one closing CRLF "--" T "--" CRLF.
C7_MultipartDelimiters ==
    [][ ( /\ Calls("WriteTo") /\ err' = "nil"
          /\ e.Message.kind = "MIMEMultipart" /\ Len(e.Message.Parts) >= 1 )
        => EndsWith(w', ClaimedMultipart(e.Message, e'.Message.Boundary, op'.mode)) ]_vars

sContentTransferEncoding ==
    <<67, 111, 110, 116, 101, 110, 116, 45, 84, 114, 97, 110, 115, 102, 101, 114,
      45, 69, 110, 99, 111, 100, 105, 110, 103>>

\* C8: a text root written under Mode7Bit has a Content-Transfer-Encoding line
\* and no byte above 126 reaches the sink.
C8_SevenBitTextEncoded ==
    ( /\ IsCall("WriteTo") /\ op.mode = Mode7Bit /\ err = "nil"
      /\ IsTextLeaf(e.Message) )
    => /\ IndexFrom(w, 1, headerPrefix(sContentTransferEncoding)) # 0
       /\ \A i \in 1..Len(w) : w[i] <= TILDE

(***************************************************************************)
(* Properties of writeEscapeHeader, under SpecHeader.                      *)
(***************************************************************************)
Verbatim == headerPrefix(hKey) \o hValue \o lineEnd

\* C9: the output read back (prefix and final CRLF dropped, folds removed,
\* encoded words decoded) is the value.
C9_HeaderRoundTrip == hpc = "done" => ReadBack(hOut, hKey) = hValue

\* C10 as claimed: a printable ASCII value shorter than 78 bytes is written as
\* "Name: " value CRLF, with no fold.
C10_AsciiVerbatim ==
    (hpc = "done" /\ IsPrintableAscii(hValue) /\ Len(hValue) < lineShouldLength)
    => hOut = Verbatim

\* C10 as amended: for a printable ASCII value shorter than 78 bytes the output
\* is "Name: " value CRLF exactly when "Name: " and the value together are at
\* most 78 bytes; otherwise it differs by folds only, no byte of the value is
\* rewritten, and no line is longer than 78 bytes.
C10_AsciiVerbatimWhenFits ==
    (hpc = "done" /\ IsPrintableAscii(hValue) /\ Len(hValue) < lineShouldLength)
    => /\ (Len(headerPrefix(hKey)) + Len(hValue) <= lineShouldLength) <=> (hOut = Verbatim)
       /\ Unfold(HeaderBody(hOut, hKey)) = hValue
       /\ \A n \in LineLengths(hOut) : n <= lineShouldLength

\* a printable ASCII value shorter than 78 bytes that was folded
C10_Witness ==
    /\ hpc = "done" /\ IsPrintableAscii(hValue) /\ Len(hValue) < lineShouldLength
    /\ Len(headerPrefix(hKey)) + Len(hValue) > lineShouldLength
    /\ hOut # Verbatim
    /\ Unfold(HeaderBody(hOut, hKey)) = hValue

\* the lines of out, each without its CRLF
Lines(out) ==
    LET ends == { i \in 1..(Len(out) - 1) : out[i] = 13 /\ out[i + 1] = 10 }
    IN { SubSeq(out,
                IF \E p \in ends : p < x
                THEN (CHOOSE p \in ends : p < x /\ \A q \in ends : q < x => q <= p) + 2
                ELSE 1,
                x - 1)
         : x \in ends }

\* C11: every output line of writeEscapeHeader that carries an encoded word is
\* at most 78 bytes long without its CRLF, the "Name: " prefix or the leading
\* space of a continuation line counted.
C11_EncodedLinesWithinThreshold ==
    hpc = "done" =>
        \A l \in Lines(hOut) :
            IndexFrom(l, 1, qPrefix) # 0 => Len(l) <= lineShouldLength

(***************************************************************************)
(* Properties of writeEscapeAddressHeader, under SpecAddress.              *)
(***************************************************************************)
\* "Name:", then every address in input order, each after a separator: a comma
\* (not before the first address), a fold where folds[i] says so, one space
RECURSIVE joinAddresses(_, _, _)
joinAddresses(addresses, folds, i) ==
    IF i > Len(addresses) THEN <<>>
    ELSE (IF i # 1 THEN <<COMMA>> ELSE <<>>)
         \o (IF folds[i] THEN lineEnd ELSE <<>>)
         \o <<SP>> \o AddressString(addresses[i])
         \o joinAddresses(addresses, folds, i + 1)

FoldedAddresses(key, addresses, folds) ==
    CanonicalMIMEHeaderKey(key) \o <<COLON>>
    \o joinAddresses(addresses, folds, 1) \o lineEnd

\* C12: the output is the header name and the formatted addresses in input
\* order, each whole on one line, consecutive addresses separated by ", " or by
\* "," CRLF and one space; a continuation line starts with exactly one space,
\* and the output ends with one CRLF.
C12_AddressesWholeInOrder ==
    hpc = "done" =>
        /\ \A i \in 1..Len(hAddrs) : IndexFrom(AddressString(hAddrs[i]), 1, lineEnd) = 0
        /\ \E folds \in [1..Len(hAddrs) -> BOOLEAN] :
              hOut = FoldedAddresses(hKey, hAddrs, folds)
        /\ \A l \in Lines(hOut) : Len(l) >= 2 /\ l[2] # SP

\* three addresses written, two of them on one line and a fold before another
C12_Witness ==
    /\ hpc = "done" /\ Len(hAddrs) >= 3
    /\ IndexFrom(hOut, 1, <<GT, COMMA, SP>>) # 0
    /\ IndexFrom(hOut, 1, <<GT, COMMA>> \o lineEnd \o <<SP>>) # 0
    /\ \E folds \in [1..Len(hAddrs) -> BOOLEAN] :
          hOut = FoldedAddresses(hKey, hAddrs, folds)

\* C13: every output line of writeEscapeAddressHeader that holds two or more
\* addresses is at most 78 bytes long without its CRLF, its commas counted.
C13_AddressLinesWithinThreshold ==
    hpc = "done" =>
        \A l \in Lines(hOut) :
            IndexFrom(l, 1, <<GT, COMMA, SP>>) # 0 => Len(l) <= lineShouldLength

====
